---- MODULE Spec2Model ----
(***************************************************************************)
(* A model of pyprocrustes: Curve.py (arclength parameterised curves),     *)
(* KDTree.py (k-d tree with nearest neighbour search) and Procrustes.py    *)
(* (superposition and distance).  Three specifications, one per source     *)
(* file: SpecCurve, SpecKD and SpecProc.  Each specification drives the    *)
(* variables of its own component and leaves the others at their idle     *)
(* values.                                                                 *)
(*                                                                         *)
(* Numbers.  The code works on floats.  The model draws its inputs from    *)
(* integer points whose consecutive distances are whole numbers, so that   *)
(* pow(.,0.5) is exact, and carries arclengths and interpolated            *)
(* coordinates as exact fractions <<numerator, denominator>>.              *)
(* Python indices are kept 0-based; PyIndex converts.                      *)
(***************************************************************************)
EXTENDS Integers, Sequences, FiniteSets, TLC

VARIABLES
    \* ---- Curve.py ----
    cpc,            \* position: "new", "ready", "search", "done", "failed"
    arr,            \* the ndarray handed to Curve(...)
    curve,          \* the Curve object's fields, or NoCurve
    t,              \* the arclength asked for, a fraction
    top_limit,      \* val_at_arclength's locals
    bottom_limit,
    cres,           \* the outcome of the last Curve operation
    \* ---- KDTree.py ----
    kpc,            \* position: "built", "loop", "done"
    points,         \* the points handed to KDTree(...)
    root,           \* the tree: the set of its nodes, each with its path from the root
    point,          \* the query point
    node,           \* nearest_neighbour's locals
    visited_nodes,
    closest_node,
    lowest_dist,    \* kept squared in the model (see DistSq)
    iters,          \* iterations of the while loop so far
    descended,      \* the children traverse_down was re-entered at, last iteration
    kres,           \* the outcome of nearest_neighbour
    \* ---- Procrustes.py ----
    ppc,            \* position: "idle", "superposed", "rotated", "measured", "scored"
    pin,            \* the arguments of the last call
    pres            \* the outcome of the last call

curveVars == <<cpc, arr, curve, t, top_limit, bottom_limit, cres>>
kdVars    == <<kpc, points, root, point, node, visited_nodes, closest_node,
               lowest_dist, iters, descended, kres>>
procVars  == <<ppc, pin, pres>>
vars      == <<curveVars, kdVars, procVars>>

-----------------------------------------------------------------------------
(* Bounds of the model. *)

\* most points of a curve handed to Curve(...)
MaxPoints == 5
\* arclengths asked for are multiples of 1/TDen
TDen == 2
\* most points handed to KDTree(...)
MaxKdPoints == 4
\* most points of a curve handed to the functions of Procrustes.py
MaxProcPoints == 5

-----------------------------------------------------------------------------
(* Outcomes: a call either returns a value or raises an exception. *)

(* "type" names what is returned or raised; "value" is its content where the  *)
(* model carries one (a point, an array, a node's path) and <<>> otherwise.   *)

Return(type, v) == [kind |-> "return", type |-> type, value |-> v]
Raise(e)  == [kind |-> "raise", type |-> e, value |-> <<>>]
Diverge   == [kind |-> "diverge", type |-> "loop", value |-> <<>>]
NoResult  == [kind |-> "none", type |-> "none", value |-> <<>>]
NoCurve   == [points |-> <<>>, distances |-> <<>>, arc_length |-> 0, valid |-> FALSE]


-----------------------------------------------------------------------------
(* Arithmetic helpers. *)

Abs(x) == IF x < 0 THEN -x ELSE x

RECURSIVE Gcd(_, _)
Gcd(a, b) == IF b = 0 THEN Abs(a) ELSE Gcd(b, a % b)

\* a fraction in lowest terms with a positive denominator
Frac(n, d) ==
    LET g == Gcd(Abs(n), Abs(d))
        s == IF d < 0 THEN -1 ELSE 1
    IN  <<(s * n) \div g, (s * d) \div g>>

FracOfInt(n) == <<n, 1>>
FracLt(x, y) == x[1] * y[2] < y[1] * x[2]
FracLe(x, y) == x[1] * y[2] <= y[1] * x[2]
FracEq(x, y) == x[1] * y[2] = y[1] * x[2]

RECURSIVE SumSeq(_)
SumSeq(s) == IF s = <<>> THEN 0 ELSE Head(s) + SumSeq(Tail(s))

\* sum(pow(a-b,2))
SumSqDiff(a, b) == SumSeq([j \in 1..Len(a) |-> (a[j] - b[j]) * (a[j] - b[j])])

IsSquare(s) == \E r \in 0..s : r * r = s
Sqrt(s) == CHOOSE r \in 0..s : r * r = s

\* Python's seq[i], i 0-based, negative i counting from the end
PyIndex(seq, i) == IF i >= 0 THEN seq[i + 1] ELSE seq[Len(seq) + i + 1]

-----------------------------------------------------------------------------
(* Curve.py *)

\* euc_length = lambda a,b: pow(sum(pow(a-b,2)),0.5)
euc_length(a, b) == Sqrt(SumSqDiff(a, b))

\* the list self.distances that set_points builds: (start, end) per segment
RECURSIVE Distances(_, _)
Distances(pts, k) ==
    IF k = 1 THEN << <<0, euc_length(pts[1], pts[2])>> >>
    ELSE LET prev == Distances(pts, k - 1)
             last == prev[k - 1][2]
         IN  Append(prev, <<last, last + euc_length(pts[k], pts[k + 1])>>)

\* set_points: the guard as written raises only when shape[1] != 3 and
\* shape[0] == 0; points[0] / points[1] raise IndexError below two points
SetPointsOutcome(a) ==
    IF ~(a.shape[2] = 3 \/ a.shape[1] > 0) THEN Raise("TypeError")
    ELSE IF a.shape[1] < 2 THEN Raise("IndexError")
    ELSE Return("Curve", <<>>)

\* the fields set_points leaves on the object when it does not raise
CurveOf(a) ==
    [points |-> a.data,
     distances |-> Distances(a.data, a.shape[1] - 1),
     arc_length |-> Distances(a.data, a.shape[1] - 1)[a.shape[1] - 1][2],
     valid |-> TRUE]

\* SearchStep with the second test written t <= bottom_dist
SearchStep_TieToLower(c, tt, top, bottom) ==
    LET middle == (top - bottom) \div 2
        top_dist == PyIndex(c.distances, middle)[1]
        bottom_dist == PyIndex(c.distances, middle)[2]
    IN  IF FracLe(FracOfInt(bottom_dist), tt) /\ FracLt(tt, FracOfInt(top_dist))
            THEN <<middle, middle>>
        ELSE IF FracLe(tt, FracOfInt(bottom_dist)) THEN <<middle, bottom>>
        ELSE IF FracLe(FracOfInt(top_dist), tt) THEN <<top, middle + 1>>
        ELSE <<top, bottom>>

\* one iteration of the while loop of val_at_arclength: the new
\* <<top_limit, bottom_limit>>.  The tuple distances[middle] is (start, end);
\* the code names its parts top_dist, bottom_dist in that order.
SearchStep(c, tt, top, bottom) ==
    LET middle == (top - bottom) \div 2
        top_dist == PyIndex(c.distances, middle)[1]
        bottom_dist == PyIndex(c.distances, middle)[2]
    IN  IF FracLe(FracOfInt(bottom_dist), tt) /\ FracLt(tt, FracOfInt(top_dist))
            THEN <<middle, middle>>
        ELSE IF FracLt(tt, FracOfInt(bottom_dist)) THEN <<middle, bottom>>
        ELSE IF FracLe(FracOfInt(top_dist), tt) THEN <<top, middle + 1>>
        ELSE <<top, bottom>>

\* f(t) = (b-a)/(dist_b-dist_a)*(t-dist_a) + a on segment index i (0-based)
Interpolate(c, tt, i) ==
    LET a == PyIndex(c.points, i)
        b == PyIndex(c.points, i + 1)
        dist_a == PyIndex(c.distances, i)[1]
        dist_b == PyIndex(c.distances, i)[2]
    IN  IF dist_b = dist_a THEN Return("nan", <<>>)
        ELSE Return("point",
                [j \in 1..Len(a) |->
                    Frac((b[j] - a[j]) * (tt[1] - dist_a * tt[2])
                            + a[j] * (dist_b - dist_a) * tt[2],
                         (dist_b - dist_a) * tt[2])])

PointAsFracs(p) == [j \in 1..Len(p) |-> FracOfInt(p[j])]

\* the three early returns of val_at_arclength; NoResult when the search runs
EarlyReturn(c, tt) ==
    IF FracEq(tt, FracOfInt(0))
        THEN Return("point", PointAsFracs(PyIndex(c.points, 0)))
    ELSE IF FracEq(tt, FracOfInt(c.arc_length))
        THEN Return("point", PointAsFracs(PyIndex(c.points, -1)))
    ELSE IF ~(FracLt(FracOfInt(0), tt) /\ FracLt(tt, FracOfInt(c.arc_length)))
        THEN Return("ValueError", <<>>)
    ELSE NoResult

\* the integer points that curves are drawn from
CurvePts == { <<0, 0, 0>>, <<1, 0, 0>>, <<1, 2, 0>>, <<1, 2, 2>> }

\* the same points with d coordinates (cut, or padded with zeros)
PtsOfDim(d) == { [j \in 1..d |-> IF j <= 3 THEN p[j] ELSE 0] : p \in CurvePts }

\* the row widths of the ndarrays handed to Curve(...)
Dims == {2, 3, 4}

\* every segment has a whole-number length
IsExact(data) ==
    \A i \in 1..(Len(data) - 1) : IsSquare(SumSqDiff(data[i], data[i + 1]))

\* the ndarrays of shape (n, d) the model hands to Curve(...)
Arrays(maxn) ==
    { a \in UNION { UNION { { [shape |-> <<n, d>>, data |-> dat] :
                                dat \in [1..n -> PtsOfDim(d)] } :
                            n \in 0..maxn } : d \in Dims } :
        IsExact(a.data) }

\* the arclengths asked of a curve: multiples of 1/TDen from -1 to arc_length+1
TValues(c) == { <<k, TDen>> : k \in (-TDen)..((c.arc_length + 1) * TDen) }

CurveIdle ==
    /\ cpc = "idle" /\ arr = [shape |-> <<0, 3>>, data |-> <<>>]
    /\ curve = NoCurve /\ t = <<0, 1>>
    /\ top_limit = 0 /\ bottom_limit = 0 /\ cres = NoResult

\* Curve(points_ndarray): __init__ calls set_points
SetPoints ==
    /\ cpc = "new"
    /\ LET o == SetPointsOutcome(arr)
       IN  IF o.kind = "return"
              THEN /\ curve' = CurveOf(arr)
                   /\ cres' = o
                   /\ cpc' = "ready"
              ELSE /\ curve' = NoCurve
                   /\ cres' = o
                   /\ cpc' = "failed"
    /\ UNCHANGED <<arr, t, top_limit, bottom_limit>>
    /\ UNCHANGED <<kdVars, procVars>>

\* val_at_arclength(t) up to the while loop
ValAtArclengthCall ==
    /\ cpc = "ready"
    /\ \E tt \in TValues(curve) :
         /\ t' = tt
         /\ LET e == EarlyReturn(curve, tt)
            IN  IF e.kind = "return"
                   THEN /\ cres' = e
                        /\ cpc' = "done"
                        /\ UNCHANGED <<top_limit, bottom_limit>>
                   ELSE /\ cres' = NoResult
                        /\ cpc' = "search"
                        /\ top_limit' = Len(curve.distances) - 1
                        /\ bottom_limit' = 0
    /\ UNCHANGED <<arr, curve>>
    /\ UNCHANGED <<kdVars, procVars>>

\* one iteration of: while top_limit != bottom_limit
SearchLoop ==
    /\ cpc = "search"
    /\ top_limit # bottom_limit
    /\ LET n == SearchStep(curve, t, top_limit, bottom_limit)
       IN  /\ top_limit' = n[1]
           /\ bottom_limit' = n[2]
    /\ UNCHANGED <<cpc, arr, curve, t, cres>>
    /\ UNCHANGED <<kdVars, procVars>>

\* the loop exits; interpolate on segment top_limit and return
SearchExit ==
    /\ cpc = "search"
    /\ top_limit = bottom_limit
    /\ cres' = Interpolate(curve, t, top_limit)
    /\ cpc' = "done"
    /\ UNCHANGED <<arr, curve, t, top_limit, bottom_limit>>
    /\ UNCHANGED <<kdVars, procVars>>


-----------------------------------------------------------------------------
(* KDTree.py.  A Node is [path, datum, axis]: path is the sequence of child  *)
(* choices (0 left, 1 right) from the root, so node.parent is the path      *)
(* without its last step and node identity (the set visited_nodes hashes    *)
(* Node objects by identity) is the path.                                   *)

\* Python's None, as a node reference
None == <<-1>>
\* float("inf")
InfDist == -1

\* list.sort(key=lambda point: point[axis]) is stable: x goes after every
\* element whose key is not larger
RECURSIVE InsertByKey(_, _, _)
InsertByKey(sorted, x, ax) ==
    IF sorted = <<>> THEN <<x>>
    ELSE IF Head(sorted)[ax + 1] <= x[ax + 1]
        THEN <<Head(sorted)>> \o InsertByKey(Tail(sorted), x, ax)
    ELSE <<x>> \o sorted

RECURSIVE SortByAxis(_, _)
SortByAxis(seq, ax) ==
    IF seq = <<>> THEN <<>>
    ELSE InsertByKey(SortByAxis(SubSeq(seq, 1, Len(seq) - 1), ax), seq[Len(seq)], ax)

\* kdtree sorting every level on axis 0
RECURSIVE kdtree_SortsOnFirstAxis(_, _, _)
kdtree_SortsOnFirstAxis(points_left, axis, path) ==
    IF Len(points_left) = 0 THEN {}
    ELSE LET ax == axis % Len(points_left[1])
             sorted == SortByAxis(points_left, 0)
             median == Len(sorted) \div 2
         IN  {[path |-> path, datum |-> PyIndex(sorted, median), axis |-> ax]}
             \cup kdtree_SortsOnFirstAxis(SubSeq(sorted, 1, median), ax + 1,
                                          Append(path, 0))
             \cup kdtree_SortsOnFirstAxis(SubSeq(sorted, median + 2, Len(sorted)),
                                          ax + 1, Append(path, 1))

\* the helper kdtree(points_left, axis) of KDTree.__init__: the nodes of the
\* subtree built, its root at path
RECURSIVE kdtree(_, _, _)
kdtree(points_left, axis, path) ==
    IF Len(points_left) = 0 THEN {}
    ELSE LET ax == axis % Len(points_left[1])
             sorted == SortByAxis(points_left, ax)
             median == Len(sorted) \div 2
         IN  {[path |-> path, datum |-> PyIndex(sorted, median), axis |-> ax]}
             \cup kdtree(SubSeq(sorted, 1, median), ax + 1, Append(path, 0))
             \cup kdtree(SubSeq(sorted, median + 2, Len(sorted)), ax + 1,
                         Append(path, 1))

HasNode(tree, path) == \E n \in tree : n.path = path
NodeAt(tree, path) == CHOOSE n \in tree : n.path = path
Left(path) == Append(path, 0)
Right(path) == Append(path, 1)
Parent(path) == SubSeq(path, 1, Len(path) - 1)

\* traverse_down(p, n)
RECURSIVE traverse_down(_, _, _)
traverse_down(tree, p, n) ==
    LET nd == NodeAt(tree, n)
        axis == nd.axis
    IN  IF ~(HasNode(tree, Left(n)) \/ HasNode(tree, Right(n))) THEN n
        ELSE IF p[axis + 1] <= nd.datum[axis + 1]
            THEN IF HasNode(tree, Left(n)) THEN traverse_down(tree, p, Left(n))
                 ELSE n
        ELSE IF HasNode(tree, Right(n)) THEN traverse_down(tree, p, Right(n))
             ELSE n

\* euc_length_squared(a, b), squared: the lambda returns the true distance
\* pow(sum(pow(a-b,2)),0.5); the model compares squares instead
DistSq(a, b) == SumSqDiff(a, b)

\* dist < lowest_dist, on squares
DistLess(d, low) == low = InfDist \/ d < low

\* the pair <<closest_node, lowest_dist>> after: if dist < lowest_dist: ...
Closer(tree, n, q, best) ==
    IF DistLess(DistSq(NodeAt(tree, n).datum, q), best[2])
        THEN <<n, DistSq(NodeAt(tree, n).datum, q)>>
    ELSE best

\* the test on a child in the for loop of nearest_neighbour:
\* child and (child not in visited_nodes) and diff < lowest_dist
ChildQualifies(tree, child, q, visited, low) ==
    /\ HasNode(tree, child)
    /\ child \notin visited
    /\ LET c == NodeAt(tree, child)
           diff == Abs(c.datum[c.axis + 1] - q[c.axis + 1])
       IN  DistLess(diff * diff, low)

\* LoopBody without visited_nodes.add(node)
LoopBody_NoVisitedAdd(tree, q, st) ==
    LET visited == st.visited
        b1 == Closer(tree, st.node, q, <<st.closest, st.lowest>>)
        up == Parent(st.node)
        b2 == Closer(tree, up, q, b1)
        goL == ChildQualifies(tree, Left(up), q, visited, b2[2])
        goR == ChildQualifies(tree, Right(up), q, visited, b2[2])
    IN  [node |-> IF goR THEN traverse_down(tree, q, Right(up))
                  ELSE IF goL THEN traverse_down(tree, q, Left(up))
                  ELSE up,
         visited |-> visited,
         closest |-> b2[1],
         lowest |-> b2[2],
         descended |-> (IF goL THEN {Left(up)} ELSE {})
                        \cup (IF goR THEN {Right(up)} ELSE {})]

\* the body of the while loop of nearest_neighbour, from its state
\* [node, visited, closest, lowest] to the state after one iteration
LoopBody(tree, q, st) ==
    LET visited == st.visited \cup {st.node}
        b1 == Closer(tree, st.node, q, <<st.closest, st.lowest>>)
        up == Parent(st.node)
        b2 == Closer(tree, up, q, b1)
        goL == ChildQualifies(tree, Left(up), q, visited, b2[2])
        goR == ChildQualifies(tree, Right(up), q, visited, b2[2])
    IN  [node |-> IF goR THEN traverse_down(tree, q, Right(up))
                  ELSE IF goL THEN traverse_down(tree, q, Left(up))
                  ELSE up,
         visited |-> visited,
         closest |-> b2[1],
         lowest |-> b2[2],
         descended |-> (IF goL THEN {Left(up)} ELSE {})
                        \cup (IF goR THEN {Right(up)} ELSE {})]


-----------------------------------------------------------------------------
(* Curve.py, as whole calls (used by Procrustes.py). *)

\* the while loop of val_at_arclength run to its end: the segment index it
\* exits with, or -1 when a pair <<top_limit, bottom_limit>> comes back (the
\* loop has no other state, so it then runs forever)
RECURSIVE SearchRun(_, _, _, _, _)
SearchRun(c, tt, top, bottom, seen) ==
    IF top = bottom THEN top
    ELSE IF <<top, bottom>> \in seen THEN -1
    ELSE LET n == SearchStep(c, tt, top, bottom)
         IN  SearchRun(c, tt, n[1], n[2], seen \cup {<<top, bottom>>})

\* val_at_arclength(t)
val_at_arclength(c, tt) ==
    LET e == EarlyReturn(c, tt)
        i == SearchRun(c, tt, Len(c.distances) - 1, 0, {})
    IN  IF e.kind = "return" THEN e
        ELSE IF i = -1 THEN Diverge
        ELSE Interpolate(c, tt, i)

\* numpy.linspace(0, stop, num), stop a whole number
linspace(stop, num) ==
    [k \in 1..num |-> IF num = 1 THEN FracOfInt(0) ELSE Frac((k - 1) * stop, num - 1)]

(* An ndarray inside Procrustes.py: n rows, the rows (points as fractions)   *)
(* before any of translate, scale, rotate was applied, the operations        *)
(* applied since, in order, and whether all its entries are finite numbers.  *)
(* translate, scale and rotate compute with square roots and a singular      *)
(* value decomposition; the model carries them symbolically in "ops".        *)
NdArray(rows) == [n |-> Len(rows), data |-> rows, ops |-> <<>>, finite |-> TRUE]
OfInput(a) == NdArray([i \in 1..a.shape[1] |-> PointAsFracs(a.data[i])])

\* gen_num_points(total, loose_detail)
gen_num_points(c, total, loose_detail) ==
    LET ts == linspace(c.arc_length, total)
        vals == [k \in 1..total |-> val_at_arclength(c, ts[k])]
    IN  IF total < Len(c.points) /\ ~loose_detail THEN Raise("ValueError")
        ELSE IF \E k \in 1..total : vals[k].kind = "diverge" THEN Diverge
        ELSE Return("ndarray",
                << [n |-> total,
                    data |-> [k \in 1..total |-> vals[k].value],
                    ops |-> <<>>,
                    finite |-> \A k \in 1..total : vals[k].type = "point"] >>)

\* Curve(a).gen_num_points(total)
Resample(a, total) ==
    IF SetPointsOutcome(a).kind = "raise" THEN SetPointsOutcome(a)
    ELSE gen_num_points(CurveOf(a), total, FALSE)

\* the names an instance of Curve answers to: its methods and the fields
\* set_points assigns
CurveAttributes ==
    {"__init__", "val_at_arclength", "gen_num_points", "set_points", "__str__",
     "points", "distances", "arc_length"}

-----------------------------------------------------------------------------
(* Procrustes.py *)

\* translate(curve): curve - sum(curve)/curve.shape[0]
translate(x) == [x EXCEPT !.ops = Append(@, "translate")]

\* rmsd(curve) is zero exactly when every point of the translated curve is the
\* origin, that is when all the points coincide
RmsdIsZero(x) == \A i \in 1..x.n : x.data[i] = x.data[1]

\* scale(curve): curve/rmsd(curve); a zero rmsd gives nan entries, no exception
scale(x) ==
    [x EXCEPT !.ops = Append(@, "scale"),
              !.finite = @ /\ ~RmsdIsZero(x)]

\* rotate(ref_curve, curve): the outcomes the call can have.  numpy's svd of a
\* matrix with nan entries either raises LinAlgError or yields nan, depending
\* on the build.
RotateOutcomes(ref_curve, x) ==
    IF ref_curve.n # x.n THEN { Return("TypeError", <<>>) }
    ELSE IF ref_curve.finite /\ x.finite
        THEN { Return("ndarray", << [x EXCEPT !.ops = Append(@, "rotate")] >>) }
    ELSE { Raise("LinAlgError"),
           Return("ndarray", << [x EXCEPT !.ops = Append(@, "rotate"),
                                          !.finite = FALSE] >>) }

\* superposition(ref_curve, curve) up to the list comprehension: the pair of
\* arrays handed to translate and scale
Equalised(ref_curve, crv) ==
    IF ref_curve.shape[1] > crv.shape[1]
        THEN LET r == Resample(crv, ref_curve.shape[1])
             IN  IF r.kind = "return"
                    THEN Return("pair", <<OfInput(ref_curve), r.value[1]>>)
                 ELSE r
    ELSE LET r == Resample(ref_curve, crv.shape[1])
         IN  IF r.kind = "return"
                THEN Return("pair", <<r.value[1], OfInput(crv)>>)
             ELSE r

\* superposition(ref_curve, curve): the outcomes the call can have
SuperpositionOutcomes(ref_curve, crv) ==
    LET e == Equalised(ref_curve, crv)
        s_ref_curve == scale(translate(e.value[1]))
        s_curve == scale(translate(e.value[2]))
    IN  IF e.kind # "return" THEN {e}
        ELSE { IF r.kind = "return"
                  THEN Return("tuple",
                              IF r.type = "ndarray" THEN <<s_ref_curve, r.value[1]>>
                              ELSE <<s_ref_curve>>)
               ELSE r : r \in RotateOutcomes(s_ref_curve, s_curve) }

\* min_distance(ref_curve, curve), on the row counts and widths of its
\* arguments: Curve(ref_curve), then one ref_curve_c.find_nearest_point(point)
\* per point of curve, the first of which ends the call when Curve has no
\* such attribute (there is no method of that name to model beyond that)
MinDistanceOutcome(ref_shape, n) ==
    LET made == SetPointsOutcome([shape |-> ref_shape])
    IN  IF made.kind = "raise" THEN made
        ELSE IF n = 0 THEN Return("tuple", <<>>)
        ELSE IF "find_nearest_point" \notin CurveAttributes
            THEN Raise("AttributeError")
        ELSE NoResult


KdIdle ==
    /\ kpc = "idle" /\ points = <<>> /\ root = {} /\ point = <<0, 0, 0>>
    /\ node = None /\ visited_nodes = {} /\ closest_node = None
    /\ lowest_dist = InfDist /\ iters = 0 /\ descended = {} /\ kres = NoResult

ProcIdle ==
    /\ ppc = "idle" /\ pin = <<>> /\ pres = NoResult

InitCurve ==
    /\ cpc = "new"
    /\ arr \in Arrays(MaxPoints)
    /\ curve = NoCurve /\ t = <<0, 1>>
    /\ top_limit = 0 /\ bottom_limit = 0 /\ cres = NoResult
    /\ KdIdle /\ ProcIdle

NextCurve ==
    \/ SetPoints
    \/ ValAtArclengthCall
    \/ SearchLoop
    \/ SearchExit

SpecCurve == InitCurve /\ [][NextCurve]_vars

\* the interpreter keeps running a call that has a step to take
FairSpecCurve == SpecCurve /\ WF_vars(NextCurve)


\* the points that trees are built from, and the query points
KdPts == { <<0, 0, 0>>, <<1, 0, 1>>, <<1, 1, 0>>, <<2, 1, 1>>, <<0, 1, 1>>, <<2, 0, 0>> }
Queries == { <<x, y, z>> : x \in {0, 1, 2}, y \in {0, 1}, z \in {0, 1} }

KdInputs == UNION { [1..n -> KdPts] : n \in 0..MaxKdPoints }

\* KDTree(points): self.root = kdtree(points)
InitKD ==
    /\ kpc = "built"
    /\ points \in KdInputs
    /\ root = kdtree(points, 0, <<>>)
    /\ point = <<0, 0, 0>>
    /\ node = None /\ visited_nodes = {} /\ closest_node = None
    /\ lowest_dist = InfDist /\ iters = 0 /\ descended = {} /\ kres = NoResult
    /\ CurveIdle /\ ProcIdle

\* nearest_neighbour(point) up to the while loop; on an empty tree
\* traverse_down reads None.left
NearestNeighbourCall ==
    /\ kpc = "built"
    /\ \E q \in Queries :
         /\ point' = q
         /\ IF root = {}
               THEN /\ kres' = Raise("AttributeError")
                    /\ kpc' = "done"
                    /\ UNCHANGED node
               ELSE /\ node' = traverse_down(root, q, <<>>)
                    /\ kpc' = "loop"
                    /\ UNCHANGED kres
    /\ UNCHANGED <<points, root, visited_nodes, closest_node, lowest_dist,
                   iters, descended>>
    /\ UNCHANGED <<curveVars, procVars>>

\* one iteration of: while(node.parent)
NearestNeighbourLoop ==
    /\ kpc = "loop"
    /\ node # <<>>
    /\ LET st == LoopBody(root, point,
                          [node |-> node, visited |-> visited_nodes,
                           closest |-> closest_node, lowest |-> lowest_dist])
       IN  /\ node' = st.node
           /\ visited_nodes' = st.visited
           /\ closest_node' = st.closest
           /\ lowest_dist' = st.lowest
           /\ descended' = st.descended
    /\ iters' = iters + 1
    /\ UNCHANGED <<kpc, points, root, point, kres>>
    /\ UNCHANGED <<curveVars, procVars>>

\* node.parent is None: return closest_node
NearestNeighbourReturn ==
    /\ kpc = "loop"
    /\ node = <<>>
    /\ kres' = Return(IF closest_node = None THEN "None" ELSE "Node", closest_node)
    /\ kpc' = "done"
    /\ UNCHANGED <<points, root, point, node, visited_nodes, closest_node,
                   lowest_dist, iters, descended>>
    /\ UNCHANGED <<curveVars, procVars>>

NextKD ==
    \/ NearestNeighbourCall
    \/ NearestNeighbourLoop
    \/ NearestNeighbourReturn

SpecKD == InitKD /\ [][NextKD]_vars


\* procrustes_distance(ref_curve, curve): the outcomes the call can have
ProcrustesDistanceOutcomes(ref_curve, crv) ==
    { IF s.kind # "return" THEN s
      ELSE IF Len(s.value) < 2 THEN Raise("TypeError")
      ELSE LET d == MinDistanceOutcome(<<s.value[1].n, ref_curve.shape[2]>>,
                                       s.value[2].n)
           IN  IF d.kind = "return" THEN Return("float", <<>>) ELSE d
      : s \in SuperpositionOutcomes(ref_curve, crv) }

\* the points the curves of Procrustes.py's callers are drawn from
ProcPts == { <<0, 0, 0>>, <<1, 0, 0>>, <<1, 2, 0>> }

ProcArrays ==
    { a \in UNION { { [shape |-> <<n, 3>>, data |-> dat] : dat \in [1..n -> ProcPts] } :
                    n \in 0..MaxProcPoints } :
        IsExact(a.data) }

InitProc ==
    /\ ppc = "idle"
    /\ pin \in ProcArrays \X ProcArrays
    /\ pres = NoResult
    /\ CurveIdle /\ KdIdle

SuperpositionCall ==
    /\ ppc = "idle"
    /\ pres' \in SuperpositionOutcomes(pin[1], pin[2])
    /\ ppc' = "superposed"
    /\ UNCHANGED pin
    /\ UNCHANGED <<curveVars, kdVars>>

RotateCall ==
    /\ ppc = "idle"
    /\ pres' \in RotateOutcomes(OfInput(pin[1]), OfInput(pin[2]))
    /\ ppc' = "rotated"
    /\ UNCHANGED pin
    /\ UNCHANGED <<curveVars, kdVars>>

MinDistanceCall ==
    /\ ppc = "idle"
    /\ pres' = MinDistanceOutcome(pin[1].shape, pin[2].shape[1])
    /\ ppc' = "measured"
    /\ UNCHANGED pin
    /\ UNCHANGED <<curveVars, kdVars>>

ProcrustesDistanceCall ==
    /\ ppc = "idle"
    /\ pres' \in ProcrustesDistanceOutcomes(pin[1], pin[2])
    /\ ppc' = "scored"
    /\ UNCHANGED pin
    /\ UNCHANGED <<curveVars, kdVars>>

NextProc ==
    \/ SuperpositionCall
    \/ RotateCall
    \/ MinDistanceCall
    \/ ProcrustesDistanceCall

SpecProc == InitProc /\ [][NextProc]_vars


-----------------------------------------------------------------------------
(* Properties of Curve.py, under SpecCurve / FairSpecCurve. *)

InRange(c, tt) == FracLt(FracOfInt(0), tt) /\ FracLt(tt, FracOfInt(c.arc_length))

\* segment i (0-based) holds tt: start_i <= tt < end_i
SegmentHolds(c, i, tt) ==
    /\ FracLe(FracOfInt(PyIndex(c.distances, i)[1]), tt)
    /\ FracLt(tt, FracOfInt(PyIndex(c.distances, i)[2]))

\* the point at fraction (tt - start_i) / (end_i - start_i) between point i
\* and point i+1
LinearPoint(c, i, tt) ==
    LET a == PyIndex(c.points, i)
        b == PyIndex(c.points, i + 1)
        s == PyIndex(c.distances, i)[1]
        e == PyIndex(c.distances, i)[2]
        num == tt[1] - s * tt[2]
        den == (e - s) * tt[2]
    IN  [j \in 1..Len(a) |-> <<a[j] * den + (b[j] - a[j]) * num, den>>]

\* C3: val_at_arclength(t) terminates for every curve of 3-dimensional points
\* with n >= 2 points and every t in [0, arc_length]: a search that has
\* started always reaches the return.
C3_Terminates == (cpc = "search" /\ arr.shape[2] = 3) ~> (cpc = "done")

\* C5: val_at_arclength(t) with t < 0 or t > arc_length ends in a failure (an
\* exception raised), never in an ordinary return value.
C5_OutOfRangeRaises ==
    (cpc = "done" /\ (FracLt(t, FracOfInt(0)) \/ FracLt(FracOfInt(curve.arc_length), t)))
        => cres.kind = "raise"

\* C6: constructing a Curve succeeds exactly for inputs with at least 2 points
\* that are all 3-dimensional, and fails for every other input.
C6_ConstructValidates ==
    cpc \in {"ready", "failed"}
        => ((cpc = "ready") <=> (arr.shape[1] >= 2 /\ arr.shape[2] = 3))

\* C8: whenever val_at_arclength(t) returns for 0 < t < arc_length, the segment
\* index it interpolates on is the unique i with start_i <= t < end_i, and the
\* value is the linear interpolation between point i and point i+1 at fraction
\* (t - start_i) / (end_i - start_i).
C8_SegmentAndInterpolation ==
    (cpc = "done" /\ InRange(curve, t) /\ cres.kind = "return")
        => /\ \A i \in 0..(Len(curve.distances) - 1) :
                SegmentHolds(curve, i, t) <=> (i = top_limit)
           /\ cres.type = "point"
           /\ \A j \in 1..Len(cres.value) :
                FracEq(cres.value[j], LinearPoint(curve, top_limit, t)[j])

\* a return for a t lying exactly on an interior segment boundary of a curve
\* with at least three segments, found after the loop has run
C8_Witness ==
    /\ cpc = "done" /\ InRange(curve, t) /\ cres.kind = "return"
    /\ Len(curve.distances) >= 3
    /\ top_limit >= 1
    /\ FracEq(t, FracOfInt(PyIndex(curve.distances, top_limit)[1]))

-----------------------------------------------------------------------------
(* Properties of KDTree.py, under SpecKD. *)

IsPrefix(p, q) == Len(p) <= Len(q) /\ SubSeq(q, 1, Len(p)) = p

\* the smallest squared distance from q to a point of pts, by linear scan
MinDistSq(pts, q) ==
    CHOOSE d \in { DistSq(pts[i], q) : i \in 1..Len(pts) } :
        \A i \in 1..Len(pts) : d <= DistSq(pts[i], q)

\* C1: on a non-empty tree nearest_neighbour returns a node whose datum is at
\* the minimum distance from the query over all points of the set.
C1_NearestIsExact ==
    (kpc = "done" /\ Len(points) > 0)
        => /\ kres.kind = "return"
           /\ kres.type = "Node"
           /\ DistSq(NodeAt(root, kres.value).datum, point) = MinDistSq(points, point)

\* C9: at every node the split axis is depth mod 3, the left subtree's points
\* are <= the datum on that axis and the right subtree's are >=; an empty
\* input yields no root.
C9_TreeInvariant ==
    /\ \A n \in root :
         /\ n.axis = Len(n.path) % 3
         /\ \A m \in root :
              /\ IsPrefix(Left(n.path), m.path)
                    => m.datum[n.axis + 1] <= n.datum[n.axis + 1]
              /\ IsPrefix(Right(n.path), m.path)
                    => m.datum[n.axis + 1] >= n.datum[n.axis + 1]
    /\ (Len(points) = 0 => root = {})

\* a tree with a two-level left subtree and a right subtree
C9_Witness ==
    /\ kpc = "built"
    /\ HasNode(root, <<0, 0>>)
    /\ HasNode(root, <<1>>)

\* C10: the upward loop of nearest_neighbour terminates: every iteration adds
\* a node not yet visited, a re-descent only enters a subtree holding no
\* visited node, and the iterations never outnumber the nodes (each iteration
\* counts one more visited node, so the loop cannot go on).
C10_LoopBounded ==
    (kpc \in {"loop", "done"} /\ root # {})
        => /\ (kpc = "loop" /\ node # <<>>) => node \notin visited_nodes
           /\ Cardinality(visited_nodes) = iters
           /\ iters <= Cardinality(root)
           /\ visited_nodes \subseteq { n.path : n \in root }
           /\ HasNode(root, node)
           /\ \A c \in descended : \A v \in visited_nodes : ~IsPrefix(c, v)

\* the loop went back down into a sibling subtree after at least two iterations
C10_Witness ==
    /\ kpc = "loop"
    /\ descended # {}
    /\ iters >= 2


-----------------------------------------------------------------------------
(* Properties of Procrustes.py, under SpecProc. *)

Max(a, b) == IF a >= b THEN a ELSE b

\* the rows of an input array, as fractions
RowsOf(a) == [i \in 1..a.shape[1] |-> PointAsFracs(a.data[i])]

\* C2: min_distance(reference, curve) on a reference that makes a Curve and a
\* non-empty curve returns one distance per point of curve, in order, each the
\* distance to the nearest point of reference (entries compared squared); it
\* does not end in a failure.
C2_MinDistanceReturns ==
    (ppc = "measured" /\ pin[1].shape[1] >= 2 /\ pin[2].shape[1] >= 1)
        => /\ pres.kind = "return"
           /\ Len(pres.value) = pin[2].shape[1]
           /\ \A i \in 1..Len(pres.value) :
                pres.value[i] = MinDistSq(pin[1].data, pin[2].data[i])

\* C4: when superposition returns, both arrays handed to translate/scale/
\* rotate have max(countRef, countCurve) rows, and an array differs from its
\* curve's original points if and only if that curve had strictly fewer points
\* than the other (so the larger curve, and both when the counts are equal,
\* arrive with their original points).
C4_ResampleOnlyFewer ==
    (ppc = "superposed" /\ pres.kind = "return" /\ Len(pres.value) = 2)
        => LET nref == pin[1].shape[1]
               ncrv == pin[2].shape[1]
           IN  /\ pres.value[1].n = Max(nref, ncrv)
               /\ pres.value[2].n = Max(nref, ncrv)
               /\ (pres.value[1].data # RowsOf(pin[1])) <=> (nref < ncrv)
               /\ (pres.value[2].data # RowsOf(pin[2])) <=> (ncrv < nref)

\* C7: rotate on curves of different point counts ends in a failure raised to
\* the caller, never in an ordinary return; an array is returned only when the
\* counts are equal.
C7_RotateMismatchRaises ==
    ppc = "rotated"
        => /\ (pin[1].shape[1] # pin[2].shape[1]) => pres.kind = "raise"
           /\ (pres.kind = "return" /\ pres.type = "ndarray")
                => pin[1].shape[1] = pin[2].shape[1]


====
